---- MODULE Spec2Model ----
(***************************************************************************)
(* Continuous camera capture (ground/camera/capture-continuous.cpp).       *)
(*                                                                         *)
(* The main thread runs discovery, session set-up, the capture loop and    *)
(* teardown; the signal handler runs asynchronously and only clears        *)
(* keep_running.  Every read of keep_running by the main thread is a       *)
(* separate step, so the handler can interleave between any two of them.   *)
(***************************************************************************)
EXTENDS Integers, Sequences, FiniteSets, TLC

(***************************************************************************)
(* Bounds of the model.                                                    *)
(***************************************************************************)
\* start_exposure calls explored per run
MaxIter == 2
\* the counts of operations after the shutdown request stop at MaxSince,
\* which then stands for "MaxSince or more"
MaxSince == 2
\* --interval values explored: 0, 0.5, ..., MaxIntervalH / 2 seconds
MaxIntervalH == 3
\* --exposure-time values explored: multiples 0..MaxExposureN of each scale
MaxExposureN == 12
\* calls of make_filename_from_time compared with each other
MaxStamps == 2

(***************************************************************************)
(* IEEE-754 binary64 arithmetic, as far as the program uses it: finite     *)
(* non-negative values, + and * with round-to-nearest-even, <, and the     *)
(* conversion to long.                                                     *)
(* A value is man * 2^(exp - 52) with man a 53-bit sequence, most          *)
(* significant bit first; zero has an all-zero mantissa.                   *)
(***************************************************************************)
MantBits == 53

Zeros(n) == [i \in 1..n |-> 0]

\* the binary digits of n < 2^30, most significant first
BitsOf(n) ==
    LET len == CHOOSE k \in 0..30 : n < 2^k /\ (k = 0 \/ 2^(k - 1) <= n)
    IN  [i \in 1..len |-> (n \div 2^(len - i)) % 2]

\* F applied to the value of v: v is evaluated once, whatever F does with it
Bind(v, F(_)) == CHOOSE r \in {F(u) : u \in {v}} : TRUE

\* the carry into bit i of a + b (bit 1 is the most significant): some
\* lower position generates a carry and every position between passes it on
Carry(a, b, i) ==
    IF \E j \in (i + 1)..Len(a) :
           /\ a[j] + b[j] = 2
           /\ \A k \in (i + 1)..(j - 1) : a[k] + b[k] = 1
    THEN 1 ELSE 0

SumBits(a, b) ==
    [i \in 1..(Len(a) + 1) |->
        IF i = 1 THEN Carry(a, b, 0)
        ELSE (a[i - 1] + b[i - 1] + Carry(a, b, i - 1)) % 2]

\* exact sum of two bit strings of equal length; one bit longer
AddBits(a, b) ==
    Bind(a, LAMBDA u : Bind(b, LAMBDA v : SumBits(u, v)))

\* s without its leading zeros
FirstOne(s) ==
    CHOOSE k \in 1..(Len(s) + 1) :
        /\ k = Len(s) + 1 \/ s[k] = 1
        /\ \A j \in 1..(k - 1) : s[j] = 0

StripZeros(s) ==
    Bind(s, LAMBDA v : Bind(FirstOne(v), LAMBDA k : SubSeq(v, k, Len(v))))

DZero == [exp |-> 0, man |-> Zeros(MantBits)]

DIsZero(x) == \A i \in 1..Len(x.man) : x.man[i] = 0

\* round to nearest, ties to even: keep holds the 53 leading bits of the
\* exact value, rest the bits below them, e the exponent of keep
RoundKept(keep, rest, e) ==
    LET half == rest # <<>> /\ rest[1] = 1
        more == \E i \in 2..Len(rest) : rest[i] = 1
        up   == half /\ (more \/ keep[MantBits] = 1)
    IN  IF ~up THEN [exp |-> e, man |-> keep]
        ELSE Bind(AddBits(keep, Zeros(MantBits - 1) \o <<1>>),
                  LAMBDA inc :
                      IF inc[1] = 1
                      THEN [exp |-> e + 1, man |-> SubSeq(inc, 1, MantBits)]
                      ELSE [exp |-> e, man |-> Tail(inc)])

\* round the exact value s * 2^(e - 52), s without leading zeros and at
\* least 53 bits long, to the nearest double
RoundBits(s, e) ==
    Bind(SubSeq(s, 1, MantBits),
         LAMBDA keep :
             Bind(SubSeq(s, MantBits + 1, Len(s)),
                  LAMBDA rest :
                      RoundKept(keep, rest, e + (Len(s) - MantBits))))

\* x + y in double arithmetic
DAdd(x, y) ==
    IF DIsZero(x) THEN y
    ELSE IF DIsZero(y) THEN x
    ELSE LET hi == IF x.exp >= y.exp THEN x ELSE y
             lo == IF x.exp >= y.exp THEN y ELSE x
             d  == hi.exp - lo.exp
         IN  Bind(StripZeros(AddBits(hi.man \o Zeros(d),
                                     Zeros(d) \o lo.man)),
                  LAMBDA s : RoundBits(s, lo.exp))

\* the exact product a * b of two bit strings, Len(a) + Len(b) bits: a is
\* added in at every set bit of b
RECURSIVE MulFrom(_, _, _, _)
MulFrom(a, b, i, acc) ==
    IF i > Len(b) THEN acc
    ELSE IF b[i] = 0 THEN MulFrom(a, b, i + 1, acc)
    ELSE Bind(Tail(AddBits(acc, Zeros(i) \o a \o Zeros(Len(b) - i))),
              LAMBDA sum : MulFrom(a, b, i + 1, sum))

MulBits(a, b) == MulFrom(a, b, 1, Zeros(Len(a) + Len(b)))

\* s without its trailing zeros
LastOne(s) ==
    CHOOSE k \in 0..Len(s) :
        /\ k = 0 \/ s[k] = 1
        /\ \A j \in (k + 1)..Len(s) : s[j] = 0

TrimZeros(s) ==
    Bind(s, LAMBDA v : Bind(LastOne(v), LAMBDA k : SubSeq(v, 1, k)))

\* the exact product of two non-zero doubles: bits s and exponent e, the
\* value being s * 2^(e - 52); y enters without its trailing zero bits
ExactProduct(x, y) ==
    Bind(TrimZeros(y.man),
         LAMBDA b :
             Bind(MulBits(x.man, b),
                  LAMBDA m : [bits |-> StripZeros(m),
                              exp  |-> x.exp + y.exp + 1 - Len(b)]))

\* x * y in double arithmetic
DMul(x, y) ==
    IF DIsZero(x) \/ DIsZero(y) THEN DZero
    ELSE Bind(ExactProduct(x, y), LAMBDA p : RoundBits(p.bits, p.exp))

\* a long is LongBits bits in two's complement, the sign bit first
LongBits == 64

LongMin == <<1>> \o Zeros(LongBits - 1)

LongMax == <<0>> \o [i \in 1..(LongBits - 1) |-> 1]

\* the integral part of x when a long can hold it; otherwise the conversion
\* is undefined, and the builds in use deliver LONG_MIN (x86-64), LONG_MAX
\* (AArch64) or 0
IntegralPart(x) ==
    IF DIsZero(x) \/ x.exp < 0 THEN {Zeros(LongBits)}
    ELSE IF x.exp >= LongBits - 1 THEN {LongMin, LongMax, Zeros(LongBits)}
    ELSE {Zeros(LongBits - 1 - x.exp)
              \o (IF x.exp < MantBits
                  THEN SubSeq(x.man, 1, x.exp + 1)
                  ELSE x.man \o Zeros(x.exp + 1 - MantBits))}

\* (long)x
LongOf(x) == Bind(x, LAMBDA v : IntegralPart(v))

\* a < b for bit strings of equal length
BitsLess(a, b) ==
    \E i \in 1..Len(a) :
        /\ a[i] < b[i]
        /\ \A j \in 1..(i - 1) : a[j] = b[j]

\* x < y on doubles
DLess(x, y) ==
    IF DIsZero(y) THEN FALSE
    ELSE IF DIsZero(x) THEN TRUE
    ELSE IF x.exp # y.exp THEN x.exp < y.exp
    ELSE BitsLess(x.man, y.man)

\* the double n / 2^s, exact for the small n used here: what stod returns
\* for the decimal text of a dyadic rational
DoubleOfScaled(n, s) ==
    IF n = 0 THEN DZero
    ELSE LET b == BitsOf(n)
         IN  [exp |-> Len(b) - 1 - s, man |-> b \o Zeros(MantBits - Len(b))]

\* the literal 0.1, 0x1.999999999999ap-4
Nine == <<1, 0, 0, 1>>
Tenth ==
    [exp |-> -4,
     man |-> <<1>> \o Nine \o Nine \o Nine \o Nine \o Nine \o Nine
                   \o Nine \o Nine \o Nine \o Nine \o Nine \o Nine
                   \o <<1, 0, 1, 0>>]

\* the literal 1e6
Million == DoubleOfScaled(1000000, 0)

\* four bits of a hexadecimal digit
Nibble(h) == Zeros(4 - Len(BitsOf(h))) \o BitsOf(h)

\* the double 0x1.<13 hexadecimal digits>p<e>
DoubleOfHex(digits, e) ==
    [exp |-> e,
     man |-> <<1>> \o Nibble(digits[1]) \o Nibble(digits[2])
                   \o Nibble(digits[3]) \o Nibble(digits[4])
                   \o Nibble(digits[5]) \o Nibble(digits[6])
                   \o Nibble(digits[7]) \o Nibble(digits[8])
                   \o Nibble(digits[9]) \o Nibble(digits[10])
                   \o Nibble(digits[11]) \o Nibble(digits[12])
                   \o Nibble(digits[13])]

\* what stod returns for "0.009" (0x1.26e978d4fdf3bp-7) and for "0.000249"
\* (0x1.05186db50f40ep-12)
DecimalExposures ==
    {DoubleOfHex(<<2, 6, 14, 9, 7, 8, 13, 4, 15, 13, 15, 3, 11>>, -7),
     DoubleOfHex(<<0, 5, 1, 8, 6, 13, 11, 5, 0, 15, 4, 0, 14>>, -12)}

\* the default exposure_seconds = 1.0
DefaultExposure == DoubleOfScaled(1, 0)

\* the default interval_seconds = 1.5, in half seconds
DefaultIntervalH == 3

\* --exposure-time values explored: n * 2^(-s) seconds, from fractions of a
\* microsecond to 2^44 seconds, and two decimal fractions
ExposureScales == {-44, 0, 3, 20}

ExposureArgs ==
    {DoubleOfScaled(n, s) : n \in 0..MaxExposureN, s \in ExposureScales}
        \cup DecimalExposures

(***************************************************************************)
(* make_filename_from_time: the name is a sequence of characters.          *)
(***************************************************************************)
DigitChars == <<"0", "1", "2", "3", "4", "5", "6", "7", "8", "9">>

RECURSIVE Decimal(_)
Decimal(n) ==
    IF n < 10 THEN <<DigitChars[n + 1]>>
    ELSE Decimal(n \div 10) \o <<DigitChars[(n % 10) + 1]>>

\* operator<< of a non-negative int under setfill('0') << setw(w)
SetW(w, n) ==
    LET s == Decimal(n)
    IN  IF Len(s) >= w THEN s ELSE [i \in 1..(w - Len(s)) |-> "0"] \o s

\* make_filename_from_time with the last field taken from tv_usec / 1000000
make_filename_from_time_WholeSeconds(t) ==
    <<"e", "x", "p", "o", "s", "u", "r", "e", "-">>
    \o Decimal(1900 + t.tm_year)
    \o SetW(2, 1 + t.tm_mon)
    \o SetW(2, t.tm_mday) \o <<"-">>
    \o SetW(2, t.tm_hour)
    \o SetW(2, t.tm_min)
    \o SetW(2, t.tm_sec) \o <<"-">>
    \o SetW(3, t.tv_usec \div 1000000)
    \o <<".", "b", "i", "n">>

\* t is the clock reading: the broken-down local time of tv_sec and tv_usec
make_filename_from_time(t) ==
    <<"e", "x", "p", "o", "s", "u", "r", "e", "-">>
    \o Decimal(1900 + t.tm_year)
    \o SetW(2, 1 + t.tm_mon)
    \o SetW(2, t.tm_mday) \o <<"-">>
    \o SetW(2, t.tm_hour)
    \o SetW(2, t.tm_min)
    \o SetW(2, t.tm_sec) \o <<"-">>
    \o SetW(3, t.tv_usec \div 1000)
    \o <<".", "b", "i", "n">>

\* clock readings gettimeofday/localtime may deliver: three instants of one
\* calendar second, two of them in the same millisecond
Times ==
    {[tm_year |-> 125, tm_mon |-> 6, tm_mday |-> 4, tm_hour |-> 9,
      tm_min |-> 5, tm_sec |-> 7, tv_usec |-> u] : u \in {0, 999, 1000}}

\* clock readings for make_filename_from_time on its own: two seconds,
\* January and December, microseconds on both sides of a millisecond
ClockReadings ==
    {[tm_year |-> 125, tm_mon |-> m, tm_mday |-> 4, tm_hour |-> 9,
      tm_min |-> 5, tm_sec |-> s, tv_usec |-> u] :
        m \in {0, 11}, s \in {7, 8}, u \in {0, 999, 1000, 999999}}

(***************************************************************************)
(* Inputs from the environment.                                            *)
(***************************************************************************)
\* answers of ASIGetNumOfConnectedCameras
CameraCounts == {-1, 0, 1}

\* answers of ASIGetCameraProperty: an 8-bit, a 12-bit and a 16-bit sensor
CameraInfos ==
    {[MaxWidth |-> 2, MaxHeight |-> 3, BitDepth |-> 8],
     [MaxWidth |-> 1, MaxHeight |-> 1, BitDepth |-> 12],
     [MaxWidth |-> 3, MaxHeight |-> 2, BitDepth |-> 16]}

ExpStatuses ==
    {"ASI_EXP_IDLE", "ASI_EXP_WORKING", "ASI_EXP_SUCCESS", "ASI_EXP_FAILED"}

Ops ==
    {"discover", "describe", "open", "init", "configure_roi", "set_control",
     "start_exposure", "poll", "fetch", "close"}

ExposingPcs == {"poll", "sleep10", "pollcheck", "intcheck"}

PacingPcs == {"pace_check", "pace_sleep"}

(***************************************************************************)
(* State.                                                                  *)
(***************************************************************************)
VARIABLES
    pc,                \* position of the main thread
    keep_running,      \* the shutdown flag: 1 running, 0 shutdown requested
    exit_code,         \* -1 while the process runs, then main's return value
    arg_interval,      \* --interval, in half seconds
    interval_seconds,  \* the double parsed from --interval
    exposure_seconds,  \* the double parsed from --exposure-time
    connected_cameras,
    camera_info,
    width, height, bytes_per_pixel, image_size,
    asi_image,         \* size of the frame buffer
    exposure_us,       \* the long passed for ASI_EXPOSURE, <<>> before
    exp_status,        \* "indeterminate" outside the loop body
    filename,          \* <<>> outside the loop body
    files,             \* files in the output directory: name -> size
    waited,            \* the pacing accumulator (a double)
    \* history
    called,            \* device operations called so far
    nStart,            \* ASIStartExposure calls so far
    nClose,            \* ASICloseCamera calls so far
    sigAt,             \* pc at which the handler cleared keep_running
    count,             \* successful starts and fetches, names, writes
    stamps,            \* calls of make_filename_from_time on its own:
                       \* the clock reading and the name returned
    since,             \* main-thread operations since the flag was cleared
    it,                \* what the current iteration has done
    lastPace,          \* pacing wait since the last start_exposure
    slices,            \* 100 ms slices slept in the current pacing wait
    startupFail,       \* the start-up call that failed, or "none"
    devOpened,         \* ASIOpenCamera succeeded
    startFailed,       \* ASIStartExposure failed
    afterFail          \* loop operations performed after that failure

config == <<arg_interval, interval_seconds, exposure_seconds>>
session ==
    <<connected_cameras, camera_info, width, height, bytes_per_pixel,
      image_size, asi_image, exposure_us>>
loopv == <<exp_status, filename, files, waited>>
hist ==
    <<called, nStart, nClose, sigAt, stamps, count, since, it, lastPace,
      slices, startupFail, devOpened, startFailed, afterFail>>
vars == <<pc, keep_running, exit_code, config, session, loopv, hist>>

NoInfo == [MaxWidth |-> 0, MaxHeight |-> 0, BitDepth |-> 0]

NoSince ==
    [sleep10 |-> 0, sleep100 |-> 0, start |-> 0, poll |-> 0, fetch |-> 0,
     name |-> 0, fopen |-> 0, write |-> 0, close |-> 0]

NoIter ==
    [status |-> "none", fetch |-> "none", name |-> 0, fopen |-> "none",
     write |-> 0]

\* the state after argument parsing and handler registration, lines 43-63
Start(intervals, exposures) ==
    /\ pc = "discover"
    /\ keep_running = 1
    /\ exit_code = -1
    /\ arg_interval \in intervals
    /\ interval_seconds = DoubleOfScaled(arg_interval, 1)
    /\ exposure_seconds \in exposures
    /\ exposure_us = <<>>
    /\ connected_cameras = 0
    /\ camera_info = NoInfo
    /\ width = 0 /\ height = 0 /\ bytes_per_pixel = 0 /\ image_size = 0
    /\ asi_image = 0
    /\ exp_status = "indeterminate"
    /\ filename = <<>>
    /\ files = <<>>
    /\ waited = DZero
    /\ called = {}
    /\ nStart = 0
    /\ nClose = 0
    /\ sigAt = "none"
    /\ stamps = {}
    /\ count = [start |-> 0, fetch |-> 0, name |-> 0, write |-> 0]
    /\ since = NoSince
    /\ it = NoIter
    /\ lastPace = "none"
    /\ slices = 0
    /\ startupFail = "none"
    /\ devOpened = FALSE
    /\ startFailed = FALSE
    /\ afterFail = 0

\* every --interval explored, the default --exposure-time
Init == Start(0..MaxIntervalH, {DefaultExposure})

\* bookkeeping shared by the actions
Call(op) == called' = called \cup {op}

\* the locals of the loop body go out of scope
LeaveBody == exp_status' = "indeterminate" /\ filename' = <<>>

Since(f) ==
    since' = IF keep_running = 0 /\ since[f] < MaxSince
             THEN [since EXCEPT ![f] = @ + 1]
             ELSE since

LoopOp == afterFail' = IF startFailed THEN afterFail + 1 ELSE afterFail

Return(code) == pc' = "done" /\ exit_code' = code

(***************************************************************************)
(* The signal handler.                                                     *)
(***************************************************************************)
\* signal_handler releasing the device itself
signal_handler_Release ==
    /\ pc # "done"
    /\ keep_running = 1
    /\ keep_running' = 0
    /\ sigAt' = pc
    /\ Call("close")
    /\ nClose' = nClose + 1
    /\ UNCHANGED <<pc, exit_code, config, session, loopv, nStart, stamps,
                   count, since, it, lastPace, slices, startupFail, devOpened,
                   startFailed, afterFail>>

\* lines 19-21
signal_handler ==
    /\ pc # "done"
    /\ keep_running = 1
    /\ keep_running' = 0
    /\ sigAt' = pc
    /\ UNCHANGED <<pc, exit_code, config, session, loopv, called, nStart,
                   nClose, stamps, count, since, it, lastPace, slices,
                   startupFail, devOpened, startFailed, afterFail>>

(***************************************************************************)
(* Start-up: discovery, property query, open, init, configuration.         *)
(***************************************************************************)
\* what no start-up step changes
loopHist ==
    <<nStart, nClose, sigAt, stamps, count, since, it, lastPace, slices,
      startFailed, afterFail>>

\* Discover with the test written as connected_cameras < 0
Discover_OffByOne ==
    /\ pc = "discover"
    /\ Call("discover")
    /\ \E n \in CameraCounts :
        /\ connected_cameras' = n
        /\ IF n < 0
           THEN Return(1) /\ startupFail' = "discover"
           ELSE pc' = "describe" /\ UNCHANGED <<exit_code, startupFail>>
    /\ UNCHANGED <<keep_running, config, camera_info, width, height,
                   bytes_per_pixel, image_size, asi_image, exposure_us,
                   loopv, loopHist, devOpened>>

\* lines 71-75
Discover ==
    /\ pc = "discover"
    /\ Call("discover")
    /\ \E n \in CameraCounts :
        /\ connected_cameras' = n
        /\ IF n < 1
           THEN Return(1) /\ startupFail' = "discover"
           ELSE pc' = "describe" /\ UNCHANGED <<exit_code, startupFail>>
    /\ UNCHANGED <<keep_running, config, camera_info, width, height,
                   bytes_per_pixel, image_size, asi_image, exposure_us,
                   loopv, loopHist, devOpened>>

\* lines 77-86
GetCameraProperty ==
    /\ pc = "describe"
    /\ Call("describe")
    /\ \/ /\ Return(1)
          /\ startupFail' = "describe"
          /\ UNCHANGED <<camera_info, width, height, bytes_per_pixel,
                         image_size>>
       \/ \E info \in CameraInfos :
          /\ camera_info' = info
          /\ width' = info.MaxWidth
          /\ height' = info.MaxHeight
          /\ bytes_per_pixel' = (IF info.BitDepth > 8 THEN 2 ELSE 1)
          /\ image_size' = info.MaxWidth * info.MaxHeight * bytes_per_pixel'
          /\ pc' = "open"
          /\ UNCHANGED <<exit_code, startupFail>>
    /\ UNCHANGED <<keep_running, config, connected_cameras, asi_image,
                   exposure_us, loopv, loopHist, devOpened>>

\* line 88: the left operand of ||
OpenCamera ==
    /\ pc = "open"
    /\ Call("open")
    /\ \/ /\ Return(1)
          /\ startupFail' = "open"
          /\ UNCHANGED devOpened
       \/ /\ devOpened' = TRUE
          /\ pc' = "init"
          /\ UNCHANGED <<exit_code, startupFail>>
    /\ UNCHANGED <<keep_running, config, session, loopv, loopHist>>

\* InitCamera with the failure reported but not returned from
InitCamera_NoReturn ==
    /\ pc = "init"
    /\ Call("init")
    /\ \/ /\ pc' = "roi"
          /\ startupFail' = "init"
          /\ UNCHANGED exit_code
       \/ /\ pc' = "roi"
          /\ UNCHANGED <<exit_code, startupFail>>
    /\ UNCHANGED <<keep_running, config, session, loopv, loopHist, devOpened>>

\* lines 89-92: the right operand of ||, reached only when open succeeded
InitCamera ==
    /\ pc = "init"
    /\ Call("init")
    /\ \/ /\ Return(1)
          /\ startupFail' = "init"
       \/ /\ pc' = "roi"
          /\ UNCHANGED <<exit_code, startupFail>>
    /\ UNCHANGED <<keep_running, config, session, loopv, loopHist, devOpened>>

\* SetROIFormat with the result of ASISetROIFormat checked like that of open
SetROIFormat_Checked ==
    /\ pc = "roi"
    /\ Call("configure_roi")
    /\ \/ /\ Return(1)
          /\ startupFail' = "configure_roi"
       \/ /\ pc' = "setexp"
          /\ UNCHANGED <<exit_code, startupFail>>
    /\ UNCHANGED <<keep_running, config, session, loopv, loopHist, devOpened>>

\* lines 94-95: the result of ASISetROIFormat is discarded
SetROIFormat ==
    /\ pc = "roi"
    /\ Call("configure_roi")
    /\ pc' = "setexp"
    /\ UNCHANGED <<keep_running, exit_code, config, session, loopv, loopHist,
                   startupFail, devOpened>>

\* line 96: (long)(exposure_seconds * 1e6) is passed for ASI_EXPOSURE; the
\* result of ASISetControlValue is discarded
SetExposure ==
    /\ pc = "setexp"
    /\ Call("set_control")
    /\ exposure_us' \in LongOf(DMul(exposure_seconds, Million))
    /\ pc' = "setgain"
    /\ UNCHANGED <<keep_running, exit_code, config, connected_cameras,
                   camera_info, width, height, bytes_per_pixel, image_size,
                   asi_image, loopv, loopHist, startupFail, devOpened>>

\* lines 97-101: gain, then the frame buffer is allocated
SetGain ==
    /\ pc = "setgain"
    /\ Call("set_control")
    /\ asi_image' = image_size
    /\ pc' = "gate"
    /\ UNCHANGED <<keep_running, exit_code, config, connected_cameras,
                   camera_info, width, height, bytes_per_pixel, image_size,
                   exposure_us, loopv, loopHist, startupFail, devOpened>>

(***************************************************************************)
(* The capture loop.                                                       *)
(***************************************************************************)
\* LoopGate with the loop written as while (true)
LoopGate_Unconditional ==
    /\ pc = "gate"
    /\ nStart < MaxIter
    /\ pc' = "start"
    /\ UNCHANGED <<keep_running, exit_code, config, session, loopv, hist>>

\* line 103: while (keep_running)
LoopGate ==
    /\ pc = "gate"
    /\ keep_running = 1 => nStart < MaxIter
    /\ pc' = IF keep_running = 1 THEN "start" ELSE "close"
    /\ UNCHANGED <<keep_running, exit_code, config, session, loopv, hist>>

\* StartExposure with continue in place of break
StartExposure_Continue ==
    /\ pc = "start"
    /\ Call("start_exposure")
    /\ nStart' = nStart + 1
    /\ Since("start")
    /\ LoopOp
    /\ lastPace' = "none"
    /\ it' = NoIter
    /\ \/ /\ pc' = "gate"
          /\ startFailed' = TRUE
          /\ UNCHANGED count
       \/ /\ pc' = "poll"
          /\ count' = [count EXCEPT !.start = @ + 1]
          /\ UNCHANGED startFailed
    /\ UNCHANGED <<keep_running, exit_code, config, session, loopv, nClose,
                   sigAt, stamps, slices, startupFail, devOpened>>

\* lines 104-107
StartExposure ==
    /\ pc = "start"
    /\ Call("start_exposure")
    /\ nStart' = nStart + 1
    /\ Since("start")
    /\ LoopOp
    /\ lastPace' = "none"
    /\ it' = NoIter
    /\ \/ /\ pc' = "close"
          /\ startFailed' = TRUE
          /\ UNCHANGED count
       \/ /\ pc' = "poll"
          /\ count' = [count EXCEPT !.start = @ + 1]
          /\ UNCHANGED startFailed
    /\ UNCHANGED <<keep_running, exit_code, config, session, loopv, nClose,
                   sigAt, stamps, slices, startupFail, devOpened>>

\* lines 109-111: the result of ASIGetExpStatus is discarded, so exp_status
\* is whatever the call left there: any status, also when nothing was stored
\* into the uninitialised local
GetExpStatus ==
    /\ pc = "poll"
    /\ Call("poll")
    /\ Since("poll")
    /\ LoopOp
    /\ \E st \in ExpStatuses :
        /\ exp_status' = st
        /\ it' = [it EXCEPT !.status = st]
    /\ pc' = "sleep10"
    /\ UNCHANGED <<keep_running, exit_code, config, session, filename, files,
                   waited, nStart, nClose, sigAt, stamps, count, lastPace,
                   slices, startupFail, devOpened, startFailed>>

\* line 112: sleep_for(10 ms)
PollSleep ==
    /\ pc = "sleep10"
    /\ Since("sleep10")
    /\ LoopOp
    /\ pc' = "pollcheck"
    /\ UNCHANGED <<keep_running, exit_code, config, session, loopv, called,
                   nStart, nClose, sigAt, stamps, count, it, lastPace, slices,
                   startupFail, devOpened, startFailed>>

\* PollCheck without the keep_running operand
PollCheck_NoFlag ==
    /\ pc = "pollcheck"
    /\ IF exp_status = "ASI_EXP_WORKING"
       THEN pc' = "poll"
       ELSE pc' = "intcheck"
    /\ UNCHANGED <<keep_running, exit_code, config, session, loopv, called,
                   nStart, nClose, sigAt, stamps, count, since, it, lastPace,
                   slices, startupFail, devOpened, startFailed, afterFail>>

\* line 113: while (exp_status == ASI_EXP_WORKING && keep_running)
PollCheck ==
    /\ pc = "pollcheck"
    /\ IF exp_status = "ASI_EXP_WORKING" /\ keep_running = 1
       THEN pc' = "poll"
       ELSE pc' = "intcheck"
    /\ UNCHANGED <<keep_running, exit_code, config, session, loopv, called,
                   nStart, nClose, sigAt, stamps, count, since, it, lastPace,
                   slices, startupFail, devOpened, startFailed, afterFail>>

\* AfterPoll without the shutdown check of line 115
AfterPoll_NoBreak ==
    /\ pc = "intcheck"
    /\ IF exp_status # "ASI_EXP_SUCCESS"
       THEN pc' = "gate" /\ LeaveBody
       ELSE pc' = "fetch" /\ UNCHANGED <<exp_status, filename>>
    /\ UNCHANGED <<keep_running, exit_code, config, session, files, waited,
                   hist>>

\* lines 115-120: break on shutdown, continue on a failed exposure
AfterPoll ==
    /\ pc = "intcheck"
    /\ IF keep_running = 0
       THEN pc' = "close" /\ LeaveBody
       ELSE IF exp_status # "ASI_EXP_SUCCESS"
            THEN pc' = "gate" /\ LeaveBody
            ELSE pc' = "fetch" /\ UNCHANGED <<exp_status, filename>>
    /\ UNCHANGED <<keep_running, exit_code, config, session, files, waited,
                   hist>>

\* GetDataAfterExp with break in place of continue
GetDataAfterExp_Break ==
    /\ pc = "fetch"
    /\ Call("fetch")
    /\ Since("fetch")
    /\ LoopOp
    /\ \/ /\ it' = [it EXCEPT !.fetch = "fail"]
          /\ pc' = "close"
          /\ LeaveBody
          /\ UNCHANGED count
       \/ /\ it' = [it EXCEPT !.fetch = "ok"]
          /\ count' = [count EXCEPT !.fetch = @ + 1]
          /\ pc' = "name"
          /\ UNCHANGED <<exp_status, filename>>
    /\ UNCHANGED <<keep_running, exit_code, config, session, files, waited,
                   nStart, nClose, sigAt, stamps, lastPace, slices,
                   startupFail, devOpened, startFailed>>

\* GetDataAfterExp with the failure reported but the frame written anyway
GetDataAfterExp_FallThrough ==
    /\ pc = "fetch"
    /\ Call("fetch")
    /\ Since("fetch")
    /\ LoopOp
    /\ \E r \in {"fail", "ok"} :
        /\ it' = [it EXCEPT !.fetch = r]
        /\ count' = [count EXCEPT !.fetch = IF r = "ok" THEN @ + 1 ELSE @]
    /\ pc' = "name"
    /\ UNCHANGED <<keep_running, exit_code, config, session, loopv, nStart,
                   nClose, sigAt, stamps, lastPace, slices, startupFail,
                   devOpened, startFailed>>

\* lines 122-125
GetDataAfterExp ==
    /\ pc = "fetch"
    /\ Call("fetch")
    /\ Since("fetch")
    /\ LoopOp
    /\ \/ /\ it' = [it EXCEPT !.fetch = "fail"]
          /\ pc' = "gate"
          /\ LeaveBody
          /\ UNCHANGED count
       \/ /\ it' = [it EXCEPT !.fetch = "ok"]
          /\ count' = [count EXCEPT !.fetch = @ + 1]
          /\ pc' = "name"
          /\ UNCHANGED <<exp_status, filename>>
    /\ UNCHANGED <<keep_running, exit_code, config, session, files, waited,
                   nStart, nClose, sigAt, stamps, lastPace, slices,
                   startupFail, devOpened, startFailed>>

\* lines 127-128
MakeFilename ==
    /\ pc = "name"
    /\ Since("name")
    /\ LoopOp
    /\ \E t \in Times : filename' = make_filename_from_time(t)
    /\ it' = [it EXCEPT !.name = @ + 1]
    /\ count' = [count EXCEPT !.name = @ + 1]
    /\ pc' = "openfile"
    /\ UNCHANGED <<keep_running, exit_code, config, session, exp_status,
                   files, waited, called, nStart, nClose, sigAt, stamps,
                   lastPace, slices, startupFail, devOpened, startFailed>>

\* OpenOutput trying again under a new name when the open fails
OpenOutput_Retry ==
    /\ pc = "openfile"
    /\ Since("fopen")
    /\ LoopOp
    /\ \/ /\ it' = [it EXCEPT !.fopen = "fail"]
          /\ pc' = "name"
          /\ UNCHANGED <<exp_status, filename>>
          /\ UNCHANGED files
       \/ /\ it' = [it EXCEPT !.fopen = "ok"]
          /\ files' = [f \in (DOMAIN files) \cup {filename} |->
                          IF f = filename THEN 0 ELSE files[f]]
          /\ pc' = "write"
          /\ UNCHANGED <<exp_status, filename>>
    /\ UNCHANGED <<keep_running, exit_code, config, session, waited, called,
                   nStart, nClose, sigAt, stamps, count, lastPace, slices,
                   startupFail, devOpened, startFailed>>

\* lines 130-134: an ofstream opened for output creates or truncates the file
OpenOutput ==
    /\ pc = "openfile"
    /\ Since("fopen")
    /\ LoopOp
    /\ \/ /\ it' = [it EXCEPT !.fopen = "fail"]
          /\ pc' = "gate"
          /\ LeaveBody
          /\ UNCHANGED files
       \/ /\ it' = [it EXCEPT !.fopen = "ok"]
          /\ files' = [f \in (DOMAIN files) \cup {filename} |->
                          IF f = filename THEN 0 ELSE files[f]]
          /\ pc' = "write"
          /\ UNCHANGED <<exp_status, filename>>
    /\ UNCHANGED <<keep_running, exit_code, config, session, waited, called,
                   nStart, nClose, sigAt, stamps, count, lastPace, slices,
                   startupFail, devOpened, startFailed>>

\* WriteOutput writing one byte per pixel whatever the bit depth
WriteOutput_PixelCount ==
    /\ pc = "write"
    /\ Since("write")
    /\ LoopOp
    /\ files' = [files EXCEPT ![filename] = width * height]
    /\ it' = [it EXCEPT !.write = @ + 1]
    /\ count' = [count EXCEPT !.write = @ + 1]
    /\ waited' = DZero
    /\ slices' = 0
    /\ pc' = "pace_check"
    /\ UNCHANGED <<keep_running, exit_code, config, session, exp_status,
                   filename, called, nStart, nClose, sigAt, stamps, lastPace,
                   startupFail, devOpened, startFailed>>

\* lines 135-141: write asi_image.size() bytes, close, reset the accumulator
WriteOutput ==
    /\ pc = "write"
    /\ Since("write")
    /\ LoopOp
    /\ files' = [files EXCEPT ![filename] = asi_image]
    /\ it' = [it EXCEPT !.write = @ + 1]
    /\ count' = [count EXCEPT !.write = @ + 1]
    /\ waited' = DZero
    /\ slices' = 0
    /\ pc' = "pace_check"
    /\ UNCHANGED <<keep_running, exit_code, config, session, exp_status,
                   filename, called, nStart, nClose, sigAt, stamps, lastPace,
                   startupFail, devOpened, startFailed>>

\* PaceCheck without the keep_running operand
PaceCheck_NoFlag ==
    /\ pc = "pace_check"
    /\ IF DLess(waited, interval_seconds)
       THEN pc' = "pace_sleep" /\ UNCHANGED <<lastPace, exp_status, filename>>
       ELSE pc' = "gate" /\ lastPace' = "full" /\ LeaveBody
    /\ UNCHANGED <<keep_running, exit_code, config, session, files, waited,
                   called, nStart, nClose, sigAt, stamps, count, since, it,
                   slices, startupFail, devOpened, startFailed, afterFail>>

\* line 142: while (waited < interval_seconds && keep_running); leaving the
\* loop ends the body of the capture loop
PaceCheck ==
    /\ pc = "pace_check"
    /\ IF DLess(waited, interval_seconds)
       THEN IF keep_running = 1
            THEN /\ pc' = "pace_sleep"
                 /\ UNCHANGED <<lastPace, exp_status, filename>>
            ELSE pc' = "gate" /\ lastPace' = "cut" /\ LeaveBody
       ELSE pc' = "gate" /\ lastPace' = "full" /\ LeaveBody
    /\ UNCHANGED <<keep_running, exit_code, config, session, files, waited,
                   called, nStart, nClose, sigAt, stamps, count, since, it,
                   slices, startupFail, devOpened, startFailed, afterFail>>

\* lines 143-144: sleep_for(100 ms); waited += 0.1
PaceSleep ==
    /\ pc = "pace_sleep"
    /\ Since("sleep100")
    /\ LoopOp
    /\ waited' = DAdd(waited, Tenth)
    /\ slices' = slices + 1
    /\ pc' = "pace_check"
    /\ UNCHANGED <<keep_running, exit_code, config, session, exp_status,
                   filename, files, called, nStart, nClose, sigAt, stamps,
                   count, it, lastPace, startupFail, devOpened, startFailed>>

(***************************************************************************)
(* Teardown, lines 148-151: the result of ASICloseCamera is discarded.     *)
(***************************************************************************)
CloseCamera ==
    /\ pc = "close"
    /\ Call("close")
    /\ nClose' = nClose + 1
    /\ Since("close")
    /\ Return(0)
    /\ UNCHANGED <<keep_running, config, session, loopv, nStart, sigAt,
                   stamps, count, it, lastPace, slices, startupFail, devOpened,
                   startFailed, afterFail>>

Next ==
    \/ signal_handler
    \/ Discover
    \/ GetCameraProperty
    \/ OpenCamera
    \/ InitCamera
    \/ SetROIFormat
    \/ SetExposure
    \/ SetGain
    \/ LoopGate
    \/ StartExposure
    \/ GetExpStatus
    \/ PollSleep
    \/ PollCheck
    \/ AfterPoll
    \/ GetDataAfterExp
    \/ MakeFilename
    \/ OpenOutput
    \/ WriteOutput
    \/ PaceCheck
    \/ PaceSleep
    \/ CloseCamera

Spec == Init /\ [][Next]_vars

\* the steps of the main thread: every ASI call, sleep and file operation
\* returns, so the thread always takes its next step
MainThread ==
    \/ Discover
    \/ GetCameraProperty
    \/ OpenCamera
    \/ InitCamera
    \/ SetROIFormat
    \/ SetExposure
    \/ SetGain
    \/ LoopGate
    \/ StartExposure
    \/ GetExpStatus
    \/ PollSleep
    \/ PollCheck
    \/ AfterPoll
    \/ GetDataAfterExp
    \/ MakeFilename
    \/ OpenOutput
    \/ WriteOutput
    \/ PaceCheck
    \/ PaceSleep
    \/ CloseCamera

LiveSpec == Init /\ [][Next]_vars /\ WF_vars(MainThread)

\* the start-up of the program up to the exposure control, for every
\* --exposure-time explored
ExposureInit == Start({DefaultIntervalH}, ExposureArgs)

ExposureNext ==
    \/ Discover
    \/ GetCameraProperty
    \/ OpenCamera
    \/ InitCamera
    \/ SetROIFormat
    \/ SetExposure

ExposureSpec == ExposureInit /\ [][ExposureNext]_vars

\* make_filename_from_time called on its own, lines 23-39: the reading of
\* gettimeofday and localtime goes in, the name comes out
CallMakeFilename ==
    /\ Cardinality(stamps) < MaxStamps
    /\ \E t \in ClockReadings :
        stamps' = stamps \cup {[t |-> t, name |-> make_filename_from_time(t)]}
    /\ UNCHANGED <<pc, keep_running, exit_code, config, session, loopv,
                   called, nStart, nClose, sigAt, count, since, it, lastPace,
                   slices, startupFail, devOpened, startFailed, afterFail>>

NameInit == Start({DefaultIntervalH}, {DefaultExposure})

NameSpec == NameInit /\ [][CallMakeFilename]_vars

\* positions inside the capture loop, lines 103-146
LoopPcs ==
    {"gate", "start", "fetch", "name", "openfile", "write"}
        \cup ExposingPcs \cup PacingPcs

TypeOK ==
    /\ keep_running \in {0, 1}
    /\ exit_code \in {-1, 0, 1}
    /\ exp_status \in ExpStatuses \cup {"indeterminate"}
    /\ called \subseteq Ops

(***************************************************************************)
(* Properties.                                                             *)
(***************************************************************************)

\* C1: when the shutdown flag is set while an iteration is exposing (after
\* start_exposure succeeded, up to the flag check that follows the polling
\* loop), that iteration fetches no frame, opens and writes no file, at most
\* one more 10 ms slice is slept, and the loop leaves for teardown.
C1_ShutdownWhileExposing ==
    sigAt \in ExposingPcs =>
        /\ since.fetch = 0
        /\ since.name = 0
        /\ since.fopen = 0
        /\ since.write = 0
        /\ since.sleep10 <= 1
        /\ since.sleep100 = 0
        /\ since.start = 0
        /\ pc \in ExposingPcs \cup {"close", "done"}

C1_Witness ==
    /\ sigAt \in ExposingPcs
    /\ since.sleep10 = 1
    /\ pc = "done"

\* C2: whenever the device was opened, it has been closed exactly once by
\* the time the process exits, and never more than once.
C2_ReleasedExactlyOnce ==
    /\ nClose <= 1
    /\ (pc = "done" /\ devOpened) => nClose = 1

\* C3: with the shutdown flag unset, every start_exposure after the first
\* is preceded by a pacing wait that ran for the full interval.
C3_PacedBetweenExposures ==
    (pc = "start" /\ keep_running = 1 /\ nStart > 0)
        => lastPace = "full"

\* C4: a failed exposure, a failed fetch and a failed open of the
\* destination each abandon the iteration without writing anything, do not
\* end the process, and with the flag unset the loop triggers the next
\* exposure.
ExposureFailedStep ==
    /\ pc = "intcheck"
    /\ pc' # pc
    /\ keep_running = 1
    /\ exp_status # "ASI_EXP_SUCCESS"

FetchFailedStep == it.fetch = "none" /\ it'.fetch = "fail"

OpenFailedStep == it.fopen = "none" /\ it'.fopen = "fail"

AbandonedWritesNothing ==
    /\ it.status # "ASI_EXP_SUCCESS" => it.fetch = "none"
    /\ it.fetch # "ok" => (it.name = 0 /\ it.fopen = "none")
    /\ it.fopen # "ok" => it.write = 0

C4_IterationFailuresNonFatal ==
    /\ []AbandonedWritesNothing
    /\ [][(ExposureFailedStep \/ FetchFailedStep \/ OpenFailedStep)
            => (pc' = "gate" /\ files' = files /\ exit_code' = -1)]_vars
    /\ [][(pc = "gate" /\ pc' # pc /\ keep_running = 1)
            => pc' = "start"]_vars

C4_Witness ==
    /\ pc = "start"
    /\ keep_running = 1
    /\ it.fopen = "fail"
    /\ exit_code = -1

\* C5: after a failed start_exposure nothing of the loop runs any more (no
\* poll, fetch, file write, pacing or start_exposure); the device is closed
\* and the process exits with code 0.
C5_StartFailureFatal ==
    startFailed =>
        /\ pc \in {"close", "done"}
        /\ afterFail = 0
        /\ pc = "done" => (exit_code = 0 /\ nClose = 1)

C5_Witness ==
    /\ startFailed
    /\ pc = "done"
    /\ nStart = 2

\* C6: a start-up failure ends the process with code 1 before the loop: no
\* start_exposure was called and no file exists; every other exit is code 0.
C6_ExitCodes ==
    /\ startupFail # "none" =>
        /\ pc = "done"
        /\ exit_code = 1
        /\ nStart = 0
        /\ "start_exposure" \notin called
        /\ DOMAIN files = {}
    /\ (pc = "done" /\ startupFail = "none") => exit_code = 0
    /\ pc # "done" => exit_code = -1

C6_Witness ==
    /\ startupFail = "init"
    /\ pc = "done"

\* C7: when discovery reports fewer than one camera the process exits with
\* code 1 and no other device call is ever made.
C7_NoCameraNoCalls ==
    ("discover" \in called /\ connected_cameras < 1) =>
        /\ pc = "done"
        /\ exit_code = 1
        /\ \A op \in Ops \ {"discover"} : op \notin called

C7_Witness ==
    /\ "discover" \in called
    /\ connected_cameras = 0
    /\ pc = "done"

IntervalMs == 500 * arg_interval

C9_SliceCount ==
    lastPace = "full" =>
        /\ 100 * slices >= IntervalMs
        /\ 100 * slices < IntervalMs + 100

\* C10: when the shutdown flag is set during the pacing wait, at most one
\* more 100 ms slice is slept, no start_exposure follows, and the process
\* can only go on to close the device once and exit with code 0.
C10_ShutdownWhilePacing ==
    sigAt \in PacingPcs =>
        /\ since.sleep100 <= 1
        /\ since.sleep10 = 0
        /\ since.start = 0
        /\ pc \in PacingPcs \cup {"gate", "close", "done"}
        /\ pc = "done" => (exit_code = 0 /\ nClose = 1)

C10_Witness ==
    /\ sigAt = "pace_sleep"
    /\ since.sleep100 = 1
    /\ pc = "done"

\* C11: from every position of the capture loop, once the shutdown flag is
\* set the main thread eventually leaves the loop, closes the device once
\* and exits with code 0 (under LiveSpec: every call and sleep returns).
C11_ShutdownCompletes ==
    (keep_running = 0 /\ pc \in LoopPcs)
        ~> (pc = "done" /\ exit_code = 0 /\ nClose = 1)

C11_Witness ==
    /\ sigAt = "sleep10"
    /\ it.status = "ASI_EXP_WORKING"
    /\ pc = "done"
    /\ exit_code = 0

\* C12: a frame file is opened and written only in an iteration whose
\* start_exposure succeeded, whose last poll returned success and whose
\* fetch succeeded.
C12_WriteOnlyAfterSuccess ==
    (pc = "write" \/ it.fopen = "ok" \/ it.write > 0) =>
        /\ ~startFailed
        /\ it.status = "ASI_EXP_SUCCESS"
        /\ it.fetch = "ok"
        /\ it.name = 1

C12_Witness ==
    /\ it.write = 1
    /\ it.status = "ASI_EXP_SUCCESS"
    /\ it.fetch = "ok"
    /\ nStart = 2
    /\ DOMAIN files # {}

\* C13: every start_exposure after the first is called only after a poll of
\* the previous exposure returned a terminal status, success or failed.
C13_TerminalBeforeRestart ==
    [][(nStart > 0 /\ nStart' = nStart + 1) =>
           it.status \in {"ASI_EXP_SUCCESS", "ASI_EXP_FAILED"}]_vars

\* C14: the shutdown flag is written only by the signal handler: a step that
\* changes the flag sets it and changes nothing else of the program, no step
\* of the main thread changes the flag, and a set flag stays set.
C14_FlagWrittenOnlyByHandler ==
    [][/\ keep_running = 0 => keep_running' = 0
       /\ keep_running' # keep_running =>
              /\ keep_running' = 0
              /\ UNCHANGED <<pc, exit_code, config, session, loopv, called,
                             nStart, nClose>>
       /\ pc' # pc => keep_running' = keep_running]_vars

C14_Witness ==
    /\ keep_running = 0
    /\ sigAt = "pace_sleep"
    /\ pc = "done"
    /\ nClose = 1

\* C15 as stated: the process ends only on a failure of open, init or
\* start_exposure, or on shutdown or an absent camera; a failure of any
\* other device call does not end it.
C15_OnlyOpenInitStartFatal ==
    pc = "done" =>
        \/ startupFail \in {"open", "init"}
        \/ startupFail = "discover" /\ connected_cameras < 1
        \/ startupFail = "none" /\ (startFailed \/ keep_running = 0)

\* C15, amended: the fatal conditions are an absent camera and a failure of
\* describe, open or init (exit code 1) and a failure of start_exposure
\* (exit code 0); the capture loop is left only on a start_exposure failure
\* or on shutdown, so a failure of configure_roi, set_control, poll, fetch
\* or close ends nothing.
C15_FatalFailures ==
    /\ pc = "done" =>
        \/ /\ startupFail \in {"discover", "describe", "open", "init"}
           /\ exit_code = 1
        \/ /\ startupFail = "none"
           /\ exit_code = 0
           /\ startFailed \/ keep_running = 0
    /\ pc = "close" => (startFailed \/ keep_running = 0)
    /\ startupFail = "discover" => connected_cameras < 1

C15_Witness ==
    /\ startupFail = "describe"
    /\ connected_cameras = 1
    /\ pc = "done"
    /\ exit_code = 1

\* the integral part of the exact product exposure_seconds * 10^6, as a bit
\* string without leading zeros
ExactMicros ==
    IF DIsZero(exposure_seconds) THEN <<>>
    ELSE LET p == ExactProduct(exposure_seconds, Million)
             drop == MantBits - 1 - p.exp
         IN  IF drop <= 0 THEN p.bits \o Zeros(-drop)
             ELSE SubSeq(p.bits, 1, Len(p.bits) - drop)

AsLong(bits) == Zeros(LongBits - Len(bits)) \o bits

\* C16: for every exposure duration >= 0 the long passed for the exposure
\* control is not negative and is the whole number of microseconds of the
\* duration, truncated; the rounding of the product to a double, which can
\* lift a value just below a whole microsecond onto it, is allowed for.
C16_ExposureMicroseconds ==
    exposure_us # <<>> =>
        /\ exposure_us[1] = 0
        /\ Len(ExactMicros) < LongBits
        /\ \/ exposure_us = AsLong(ExactMicros)
           \/ exposure_us =
                  Tail(AddBits(AsLong(ExactMicros),
                               Zeros(LongBits - 1) \o <<1>>))

\* exposure-YYYYMMDD-HHMMSS-mmm.bin: 32 characters, digits in the fields
IsFrameName(n) ==
    /\ Len(n) = 32
    /\ SubSeq(n, 1, 9) = <<"e", "x", "p", "o", "s", "u", "r", "e", "-">>
    /\ \A i \in (10..17) \cup (19..24) \cup (26..28) :
           \E d \in 1..10 : n[i] = DigitChars[d]
    /\ n[18] = "-"
    /\ n[25] = "-"
    /\ SubSeq(n, 29, 32) = <<".", "b", "i", "n">>

SameSecond(a, b) ==
    /\ a.tm_year = b.tm_year /\ a.tm_mon = b.tm_mon /\ a.tm_mday = b.tm_mday
    /\ a.tm_hour = b.tm_hour /\ a.tm_min = b.tm_min /\ a.tm_sec = b.tm_sec

\* C17: every generated name has the form exposure-YYYYMMDD-HHMMSS-mmm.bin;
\* equal clock readings give equal names, and two readings of the same
\* calendar second with different milliseconds give different names.
C17_NamesInjective ==
    \A a \in stamps : \A b \in stamps :
        /\ IsFrameName(a.name)
        /\ a.t = b.t => a.name = b.name
        /\ (SameSecond(a.t, b.t)
              /\ a.t.tv_usec \div 1000 # b.t.tv_usec \div 1000)
               => a.name # b.name

C17_Witness ==
    \E a \in stamps : \E b \in stamps :
        /\ a.t.tv_usec = 999
        /\ b.t.tv_usec = 1000
        /\ a.name # b.name

\* the counts of one iteration and of the whole run
C18_Counts ==
    /\ it.name <= 1
    /\ it.name = 1 => it.fetch = "ok"
    /\ pc \in {"openfile", "write"} => it.name = 1
    /\ count.write <= count.name
    /\ count.name = (IF pc = "name" THEN count.fetch - 1 ELSE count.fetch)
    /\ count.fetch <= count.start

\* the step of the main thread after the name generation
C18_NameThenOpen ==
    (pc = "openfile" /\ pc' # pc) =>
        /\ pc' \in {"write", "gate"}
        /\ it'.fopen # "none"
        /\ UNCHANGED <<called, slices, waited>>

\* C18: the name is generated once in an iteration, only after its fetch
\* succeeded, and the next step of the main thread is the open of the
\* destination, with no device call and no sleep in between; at every
\* moment writes <= names <= successful fetches <= successful starts, and
\* names = successful fetches except just before the name is generated.
C18_NameOncePerFrame == []C18_Counts /\ [][C18_NameThenOpen]_vars

C18_Witness ==
    /\ count.start = 2
    /\ count.fetch = 2
    /\ count.name = 2
    /\ count.write = 1
    /\ it.fopen = "fail"

\* positions before the first evaluation of the loop gate
StartupPcs ==
    {"discover", "describe", "open", "init", "roi", "setexp", "setgain"}

\* the flag was set before the loop or at the gate: nothing of the loop has
\* run since, and a run that got to the loop ends closed once with code 0
GatedFromTheStart ==
    (sigAt \in StartupPcs \/ (sigAt = "gate" /\ pc # "gate")) =>
        /\ since.start = 0 /\ since.poll = 0 /\ since.fetch = 0
        /\ since.name = 0 /\ since.fopen = 0 /\ since.write = 0
        /\ since.sleep10 = 0 /\ since.sleep100 = 0
        /\ sigAt \in StartupPcs => nStart = 0 /\ DOMAIN files = {}
        /\ (pc = "done" /\ startupFail = "none") =>
               (exit_code = 0 /\ nClose = 1 /\ since.close = 1)

\* the gate read with the flag set leads to the close
GateClosed ==
    (pc = "gate" /\ keep_running = 0 /\ pc' # pc) => pc' = "close"

\* the step after that is ASICloseCamera and the return of 0
CloseThenExit ==
    (pc = "close" /\ pc' # pc) =>
        /\ pc' = "done"
        /\ exit_code' = 0
        /\ nClose' = 1
        /\ called' = called \cup {"close"}
        /\ UNCHANGED <<nStart, files, slices, count>>

\* C19: whenever the loop gate is read with the shutdown flag set, also when
\* the signal came before the first iteration, no start_exposure, poll,
\* fetch, file write or pacing slice follows: the next steps are the close
\* of the device, once, and the exit with code 0.
C19_GateShutsDown ==
    []GatedFromTheStart /\ [][GateClosed]_vars /\ [][CloseThenExit]_vars

C19_Witness ==
    /\ sigAt = "setgain"
    /\ pc = "done"
    /\ exit_code = 0
    /\ nClose = 1
    /\ nStart = 0

====
